---- MODULE Spec2Model ----
(***************************************************************************)
(* A model of cipher.py: a Feistel network block cipher built from a       *)
(* pluggable mixing function F, PKCS#7 padding and a per-block driver.     *)
(* Byte arrays are sequences over 0..255; Python slices are modelled by    *)
(* PySlice, which clips and resolves negative indices the way Python does. *)
(***************************************************************************)
EXTENDS Integers, Sequences, FiniteSets, TLC

\* ---------------------------------------------------------------- bounds
MaxLen == 66        \* longest caller-supplied input, in bytes
MaxRounds == 2      \* largest round count r
MaxPat == 1         \* input byte patterns 0..MaxPat

\* ------------------------------------------------------ program constants
BLK_SIZE == 32
DigestLen == 16

\* ---------------------------------------------------------------- helpers
Min(a, b) == IF a < b THEN a ELSE b
Max(a, b) == IF a > b THEN a ELSE b

\* Python's resolution of a slice bound n against a sequence of length len:
\* a negative bound counts from the end, and the result is clipped to 0..len.
PyIndex(n, len) == IF n < 0 THEN Max(len + n, 0) ELSE Min(n, len)

\* s[lo:hi] with Python semantics (0-based, hi exclusive, clipped).
PySlice(s, lo, hi) ==
    LET a == PyIndex(lo, Len(s))
        b == PyIndex(hi, Len(s))
    IN  IF a >= b THEN << >> ELSE SubSeq(s, a + 1, b)

\* ai ^ bi on two bytes.
RECURSIVE XorByte(_, _)
XorByte(a, b) ==
    IF a = 0 THEN b
    ELSE IF b = 0 THEN a
    ELSE ((a + b) % 2) + 2 * XorByte(a \div 2, b \div 2)

\* Variant of xor: bytes added modulo 256 instead of combined bit by bit.
xorAdd(a, b) == [i \in 1..Min(Len(a), Len(b)) |-> (a[i] + b[i]) % 256]

\* xor(a, b): zip stops at the shorter argument.
xor(a, b) == [i \in 1..Min(Len(a), Len(b)) |-> XorByte(a[i], b[i])]

RECURSIVE SumBytes(_)
SumBytes(s) == IF s = << >> THEN 0 ELSE Head(s) + SumBytes(Tail(s))

ByteAt(s, i) == IF i >= 1 /\ i <= Len(s) THEN s[i] ELSE 0

\* The mixing functions supplied by callers.  Each is deterministic and total
\* and returns DigestLen bytes for a DigestLen-byte half:
\*   "digest" always returns DigestLen bytes, like hash_func;
\*   "trunc"  returns the first DigestLen bytes of its argument;
\*   "const"  ignores its argument.
MixFs == {"digest", "trunc", "const"}

MixF(f, h) ==
    IF f = "trunc" THEN PySlice(h, 0, DigestLen)
    ELSE IF f = "const" THEN [i \in 1..DigestLen |-> 165]
    ELSE [i \in 1..DigestLen |->
            (ByteAt(h, i) * ByteAt(h, DigestLen + 1 - i) + 31 * i
               + SumBytes(h) + Len(h)) % 256]

\* round(data, F) raises when len(data) is odd.
roundRaises(data) == Len(data) % 2 = 1

\* Variant of round: the mixing function is applied to the left half.
roundMixLeft(data, f) ==
    LET L == Len(data)
        left == PySlice(data, 0, L \div 2)
        right == PySlice(data, L \div 2, L)
    IN  right \o xor(left, MixF(f, left))

\* round(data, F) on data of even length: right + xor(left, F(right)).
round(data, f) ==
    LET L == Len(data)
        left == PySlice(data, 0, L \div 2)
        right == PySlice(data, L \div 2, L)
    IN  right \o xor(left, MixF(f, right))

\* Variant of flip: the halves are left where they are.
flipNoSwap(data) == data

flip(data) ==
    LET l == Len(data)
    IN  PySlice(data, l \div 2, l) \o PySlice(data, 0, l \div 2)

\* Variant of pad: nothing is appended to block-aligned data.
padAlignedUnpadded(data) ==
    LET m == (BLK_SIZE - (Len(data) % BLK_SIZE)) % BLK_SIZE
    IN  data \o [i \in 1..m |-> m]

\* Variant of pad: bytearray(m), i.e. m zero bytes, is appended.
padZeroBytes(data) ==
    LET m == BLK_SIZE - (Len(data) % BLK_SIZE)
    IN  data \o [i \in 1..m |-> 0]

pad(data) ==
    LET m == BLK_SIZE - (Len(data) % BLK_SIZE)
    IN  data \o [i \in 1..m |-> m]

unpad(data) ==
    IF Len(data) = 0 THEN data
    ELSE PySlice(data, 0, 0 - data[Len(data)])

\* Variant of Blocks: range(0, len(data) + 1, BLK_SIZE), which yields a
\* trailing empty block for block-aligned data.
BlocksRangeOffByOne(data) ==
    [k \in 1..((Len(data) \div BLK_SIZE) + 1) |->
        PySlice(data, (k - 1) * BLK_SIZE, (k - 1) * BLK_SIZE + BLK_SIZE)]

\* [data[i : i + BLK_SIZE] for i in range(0, len(data), BLK_SIZE)]
Blocks(data) ==
    [k \in 1..((Len(data) + BLK_SIZE - 1) \div BLK_SIZE) |->
        PySlice(data, (k - 1) * BLK_SIZE, (k - 1) * BLK_SIZE + BLK_SIZE)]

\* n successive rounds on one block (the inner loop of crypt), for blocks of
\* even length.
RECURSIVE RoundN(_, _, _)
RoundN(blk, f, n) == IF n = 0 THEN blk ELSE RoundN(round(blk, f), f, n - 1)

\* ----------------------------------------------------------------- inputs
Gen(n, p) == [i \in 1..n |-> (37 * p + 11 + (2 * p + 1) * i) % 256]

LastBytes == {0, 1, 32, 200}

WithLast(s, b) == [i \in 1..Len(s) |-> IF i = Len(s) THEN b ELSE s[i]]

Inputs ==
    { Gen(n, p) : n \in 0..MaxLen, p \in 0..MaxPat }
      \cup { WithLast(Gen(n, 0), b) : n \in 1..MaxLen, b \in LastBytes }

\* ------------------------------------------------------------------ state
VARIABLES
    orig,      \* the byte array the caller started from
    input,     \* argument `data` of the current call
    F,         \* the mixing function passed to the call
    r,         \* the round count passed to the call
    decrypt,   \* the decrypt flag of the current crypt call
    phase,     \* 1: first call; 2: crypt(e, F, True) on the first call's result
    pc,        \* position of the running call
    data,      \* crypt: local `data` after line 106
    blks,      \* crypt: the block list
    bi,        \* crypt: number of blocks the outer loop has finished
    blk,       \* crypt: the current block
    k,         \* crypt: rounds done on the current block
    res,       \* crypt: accumulated output
    ret,       \* crypt: return value
    out,       \* result of a direct call of pad, unpad, round or flip
    calls      \* invocations of F made by the current call

vars == <<orig, input, F, r, decrypt, phase, pc, data, blks, bi, blk, k, res,
          ret, out, calls>>

cryptVars == <<data, blks, bi, blk, k, res, ret>>
callVars == <<orig, input, F, r, decrypt, phase>>

Init ==
    /\ orig \in Inputs
    /\ input = orig
    /\ F \in MixFs
    /\ r \in 1..MaxRounds
    /\ decrypt \in BOOLEAN
    /\ phase = 1
    /\ pc = "idle"
    /\ data = << >>
    /\ blks = << >>
    /\ bi = 0
    /\ blk = << >>
    /\ k = 0
    /\ res = << >>
    /\ ret = << >>
    /\ out = << >>
    /\ calls = 0

\* ------------------------------------------------------------------ crypt
\* Lines 106-111: pad on encryption, split into blocks, empty result.
CryptEnter(d, dec) ==
    /\ data' = (IF dec THEN d ELSE pad(d))
    /\ blks' = Blocks(data')
    /\ res' = << >>
    /\ bi' = 0
    /\ blk' = << >>
    /\ k' = 0
    /\ ret' = << >>
    /\ calls' = 0
    /\ pc' = "for"

CryptCall ==
    /\ pc = "idle"
    /\ CryptEnter(input, decrypt)
    /\ UNCHANGED <<callVars, out>>

\* Line 112: the outer loop takes the next block.
ForBlk ==
    /\ pc = "for"
    /\ bi < Len(blks)
    /\ blk' = blks[bi + 1]
    /\ k' = 0
    /\ pc' = "rounds"
    /\ UNCHANGED <<callVars, data, blks, bi, res, ret, out, calls>>

\* Lines 113-114: one round on the current block.
RoundStep ==
    /\ pc = "rounds"
    /\ k < r
    /\ ~roundRaises(blk)
    /\ blk' = round(blk, F)
    /\ calls' = calls + 1
    /\ k' = k + 1
    /\ UNCHANGED <<callVars, pc, data, blks, bi, res, ret, out>>

\* Lines 31-33 reached from line 114: the exception leaves crypt.
RoundRaise ==
    /\ pc = "rounds"
    /\ k < r
    /\ roundRaises(blk)
    /\ pc' = "error"
    /\ UNCHANGED <<callVars, cryptVars, out, calls>>

\* Variant of FlipAppend: the flipped block is put in front of the result.
FlipPrepend ==
    /\ pc = "rounds"
    /\ k = r
    /\ res' = flip(blk) \o res
    /\ bi' = bi + 1
    /\ pc' = "for"
    /\ UNCHANGED <<callVars, data, blks, blk, k, ret, out, calls>>

\* Line 115: after r rounds the flipped block is appended to the result.
FlipAppend ==
    /\ pc = "rounds"
    /\ k = r
    /\ res' = res \o flip(blk)
    /\ bi' = bi + 1
    /\ pc' = "for"
    /\ UNCHANGED <<callVars, data, blks, blk, k, ret, out, calls>>

\* Line 117.
Return ==
    /\ pc = "for"
    /\ bi = Len(blks)
    /\ ret' = (IF decrypt THEN unpad(res) ELSE res)
    /\ pc' = "done"
    /\ UNCHANGED <<callVars, data, blks, bi, blk, k, res, out, calls>>

\* Lines 121-124: the result of an encryption is decrypted with the same F
\* and r.
MainDecrypt ==
    /\ pc = "done"
    /\ phase = 1
    /\ ~decrypt
    /\ phase' = 2
    /\ input' = ret
    /\ decrypt' = TRUE
    /\ CryptEnter(ret, TRUE)
    /\ UNCHANGED <<orig, F, r, out>>

\* ------------------------------------------------- the primitives, directly
PadCall ==
    /\ pc = "idle"
    /\ out' = pad(input)
    /\ pc' = "pad"
    /\ UNCHANGED <<callVars, cryptVars, calls>>

UnpadCall ==
    /\ pc = "idle"
    /\ out' = unpad(input)
    /\ pc' = "unpad"
    /\ UNCHANGED <<callVars, cryptVars, calls>>

\* unpad(pad(d))
UnpadPadded ==
    /\ pc = "pad"
    /\ out' = unpad(out)
    /\ pc' = "padunpad"
    /\ UNCHANGED <<callVars, cryptVars, calls>>

RoundCall ==
    /\ pc = "idle"
    /\ IF roundRaises(input)
         THEN /\ pc' = "rounderr"
              /\ UNCHANGED <<out, calls>>
         ELSE /\ out' = round(input, F)
              /\ calls' = calls + 1
              /\ pc' = "round"
    /\ UNCHANGED <<callVars, cryptVars>>

\* Lines 113-115 on a single block: r rounds, then flip.
BlockCall ==
    /\ pc = "idle"
    /\ Len(input) = BLK_SIZE
    /\ out' = flip(RoundN(input, F, r))
    /\ pc' = "blk1"
    /\ UNCHANGED <<callVars, cryptVars, calls>>

BlockAgain ==
    /\ pc = "blk1"
    /\ out' = flip(RoundN(out, F, r))
    /\ pc' = "blk2"
    /\ UNCHANGED <<callVars, cryptVars, calls>>

Next ==
    \/ CryptCall
    \/ ForBlk
    \/ RoundStep
    \/ RoundRaise
    \/ FlipAppend
    \/ Return
    \/ MainDecrypt
    \/ PadCall
    \/ UnpadCall
    \/ UnpadPadded
    \/ RoundCall
    \/ BlockCall
    \/ BlockAgain

Spec == Init /\ [][Next]_vars

\* ----------------------------------------------------------------- claims
InCrypt == pc \in {"for", "rounds", "done", "error"}

Bit(x, j) == (x \div (2 ^ j)) % 2

\* Number of BLK_SIZE-byte blocks needed to hold n bytes.
CeilBlocks(n) == (n + BLK_SIZE - 1) \div BLK_SIZE

\* C1: decrypting, with the same F and r, the result of encrypting d returns
\* d; the decryption never raises.
C1_RoundTrip ==
    phase = 2 => /\ pc # "error"
                 /\ pc = "done" => ret = orig

C1_Witness ==
    /\ phase = 2
    /\ pc = "done"
    /\ Len(orig) = BLK_SIZE
    /\ F = "digest"
    /\ r >= 2
    /\ ret = orig

\* C2: in the decrypt direction crypt fails whenever the input length is not
\* a positive multiple of BLK_SIZE, so it never returns a result for such an
\* input.
C2_DecryptRejectsBadLength ==
    (InCrypt /\ decrypt /\ ~(Len(input) > 0 /\ Len(input) % BLK_SIZE = 0))
        => pc # "done"

\* C3: unpad(pad(d)) = d for every d.
C3_PadRoundTrip == pc = "padunpad" => out = input

C3_Witness ==
    /\ pc = "padunpad"
    /\ Len(input) = BLK_SIZE
    /\ input[Len(input)] = 1
    /\ out = input

\* C4: pad(d) is d followed by m bytes of value m, with
\* m = BLK_SIZE - len(d) mod BLK_SIZE in 1..BLK_SIZE, so the result is
\* strictly longer than d and a multiple of BLK_SIZE long.
C4_PadExtends ==
    pc = "pad" =>
        LET n == Len(input)
            m == BLK_SIZE - (n % BLK_SIZE)
        IN  /\ m \in 1..BLK_SIZE
            /\ Len(out) = n + m
            /\ \A i \in 1..n : out[i] = input[i]
            /\ \A i \in (n + 1)..(n + m) : out[i] = m
            /\ Len(out) > n
            /\ Len(out) % BLK_SIZE = 0

C4_Witness ==
    /\ pc = "pad"
    /\ Len(input) = BLK_SIZE
    /\ Len(out) = 2 * BLK_SIZE
    /\ out[Len(out)] = BLK_SIZE

\* C5: for a block b of BLK_SIZE bytes, r rounds followed by flip, applied
\* twice, give b back.
C5_BlockSelfInverse == pc = "blk2" => out = input

C5_Witness ==
    /\ pc = "blk2"
    /\ F = "digest"
    /\ r >= 2
    /\ out = input

\* C6: the concatenated per-block output of crypt is a multiple of BLK_SIZE
\* long in both directions, and an encryption returns len(pad(data)) bytes.
C6_OutputBlockMultiple ==
    pc = "done" => /\ Len(res) % BLK_SIZE = 0
                   /\ ~decrypt =>
                        Len(ret) = Len(input) + BLK_SIZE
                                     - (Len(input) % BLK_SIZE)

\* C7: unpad returns the empty input unchanged and otherwise, with m the last
\* byte, the first len(data) - m bytes of data, for every m.
C7_UnpadStripsLastByteCount ==
    pc = "unpad" =>
        IF Len(input) = 0 THEN out = input
        ELSE out = SubSeq(input, 1, Len(input) - input[Len(input)])

\* C8: on a block of even length L, with F returning L/2 bytes, round returns
\* right || (left XOR F(right)); on a block of odd length it raises without
\* calling F.
C8_RoundContract ==
    /\ pc = "rounderr" => /\ Len(input) % 2 = 1
                          /\ calls = 0
                          /\ out = << >>
    /\ pc = "round" =>
        LET L == Len(input)
            h == L \div 2
            fr == MixF(F, SubSeq(input, h + 1, L))
        IN  /\ L % 2 = 0
            /\ calls = 1
            /\ Len(fr) = h =>
                 /\ Len(out) = L
                 /\ \A i \in 1..h : out[i] = input[h + i]
                 /\ \A i \in 1..h : \A j \in 0..7 :
                      Bit(out[h + i], j)
                        = (Bit(input[i], j) + Bit(fr[i], j)) % 2

C8_Witness ==
    /\ pc = "round"
    /\ Len(input) = BLK_SIZE
    /\ F = "digest"
    /\ Len(out) = BLK_SIZE

\* C9: the i-th BLK_SIZE-byte block of crypt's concatenated output is
\* flip(round^r(.)) of the i-th input block alone, at the same position,
\* whatever the other blocks are and however many follow.
C9_BlockIndependence ==
    \A i \in 1..bi :
        Len(blks[i]) = BLK_SIZE =>
            SubSeq(res, (i - 1) * BLK_SIZE + 1, i * BLK_SIZE)
              = flip(RoundN(SubSeq(data, (i - 1) * BLK_SIZE + 1, i * BLK_SIZE),
                            F, r))

C9_Witness ==
    /\ pc = "done"
    /\ bi >= 2
    /\ blks[1] # blks[2]
    /\ F = "digest"

\* C10 as stated: a crypt call invokes F at most r * (len(data) / BLK_SIZE)
\* times, data being the caller's input.
C10_OriginalCallBound ==
    InCrypt => calls * BLK_SIZE <= r * Len(input)

\* Steps a running crypt call still has to take: it is a natural number,
\* and 0 once the call has returned or raised.
StepsLeft ==
    IF pc = "for" THEN (Len(blks) - bi) * (r + 2) + 1
    ELSE IF pc = "rounds" THEN (Len(blks) - bi - 1) * (r + 2) + (r - k) + 2
    ELSE 0

\* C10 amended: every crypt call returns or raises (while it runs, the guard
\* of ForBlk or Return, or of RoundStep, RoundRaise or FlipAppend, holds, and
\* each step lowers StepsLeft), and it invokes F at most
\* r * ceil(n / BLK_SIZE) times, where n is len(pad(data)) on encryption and
\* len(data) on decryption.
C10_CallBound ==
    /\ [](InCrypt =>
            LET n == IF decrypt THEN Len(input)
                     ELSE Len(input) + BLK_SIZE - (Len(input) % BLK_SIZE)
            IN  /\ calls <= r * CeilBlocks(n)
                /\ StepsLeft >= 0
                /\ pc = "for" => (bi < Len(blks) \/ bi = Len(blks))
                /\ pc = "rounds" => (k < r \/ k = r))
    /\ [][(pc \in {"for", "rounds"}) => (StepsLeft' < StepsLeft)]_vars

C10_Witness ==
    /\ pc = "done"
    /\ ~decrypt
    /\ Len(input) = 0
    /\ calls = r

TypeOK ==
    /\ pc \in {"idle", "for", "rounds", "done", "error", "pad", "unpad",
               "padunpad", "round", "rounderr", "blk1", "blk2"}
    /\ phase \in 1..2
    /\ k \in 0..r
    /\ bi \in 0..Len(blks)
    /\ \A i \in 1..Len(res) : res[i] \in 0..255
    /\ \A i \in 1..Len(out) : out[i] \in 0..255
====
